---- MODULE Spec2Model ----
(***************************************************************************)
(* Staged revision workflow of Draft/Full_Code.py, Draft/fast_api.py and   *)
(* Draft/code_review.py: Generate -> Review -> (Improve -> Finalize),       *)
(* the review classifier, and the line colouring helper.                   *)
(*                                                                         *)
(* A text is a sequence of one-character strings.  Fixed prompt text is a  *)
(* single multi-character element, which no response text ever contains.   *)
(***************************************************************************)
EXTENDS Integers, Sequences, FiniteSets, TLC

VARIABLES
    \* ---- workflow (one process running one of the three programs)
    variant,        \* which program: "design", "api" or "ui"
    graph,          \* the compiled StateGraph (module-level `chain`)
    pc,             \* per invocation: position of chain.invoke
    state,          \* per invocation: the State dict threaded through the nodes
    visited,        \* per invocation: the stage functions that ran, in order
    calls,          \* per invocation: the llm.invoke calls made (stage, prompt, reads)
    replies,        \* per invocation: the msg.content of each call that returned
    verdict,        \* per invocation: what the path function returned, "none" before
    result,         \* per invocation: what chain.invoke gave its caller
    \* ---- review classifier applied to one response text
    rv_text, rv_pc, rv_design, rv_api, rv_ui,
    \* ---- colorize_python_code applied to one text
    cz_code, cz_pc, cz_lines, cz_i, in_docstring, colored_lines, cz_flags, cz_cls, cz_out,
    \* ---- the clean-up of state["code"] applied to one text, then to its own result
    cl_site,        \* "api": clean_python_code; "ui": the expression in the button handler
    cl_raw, cl_pc, cl_out, cl_again

flowVars == <<variant, graph, pc, state, visited, calls, replies, verdict, result>>
rvVars   == <<rv_text, rv_pc, rv_design, rv_api, rv_ui>>
czVars   == <<cz_code, cz_pc, cz_lines, cz_i, in_docstring, colored_lines, cz_flags, cz_cls,
             cz_out>>
clVars   == <<cl_site, cl_raw, cl_pc, cl_out, cl_again>>
vars     == <<flowVars, rvVars, czVars, clVars>>

(***************************************************************************)
(* Bounds                                                                  *)
(***************************************************************************)
MaxTextLen == 4     \* longest enumerated review response
MaxLines   == 3     \* most enumerated input lines for the colouring
NumInv     == 2     \* concurrent invocations of the compiled graph
MaxChunks  == 3     \* most pieces an enumerated raw_code text is put together from

(***************************************************************************)
(* Python str primitives                                                   *)
(***************************************************************************)
\* the ASCII characters str.strip() removes
Whitespace == {" ", "\t", "\n", "\r", "\f"}

UpperCase == <<"A", "B", "C", "D", "E", "F", "G", "H", "I", "J", "K", "L", "M",
               "N", "O", "P", "Q", "R", "S", "T", "U", "V", "W", "X", "Y", "Z">>
LowerCase == <<"a", "b", "c", "d", "e", "f", "g", "h", "i", "j", "k", "l", "m",
               "n", "o", "p", "q", "r", "s", "t", "u", "v", "w", "x", "y", "z">>

\* str.lower() on one character
LowerChar(c) ==
    IF \E k \in 1..Len(UpperCase) : UpperCase[k] = c
    THEN LowerCase[CHOOSE k \in 1..Len(UpperCase) : UpperCase[k] = c]
    ELSE c

\* str.lower()
Lower(s) == [k \in 1..Len(s) |-> LowerChar(s[k])]

RECURSIVE LStrip(_)
LStrip(s) == IF s # <<>> /\ Head(s) \in Whitespace THEN LStrip(Tail(s)) ELSE s

RECURSIVE RStrip(_)
RStrip(s) ==
    IF s # <<>> /\ s[Len(s)] \in Whitespace THEN RStrip(SubSeq(s, 1, Len(s) - 1)) ELSE s

\* str.strip()
Strip(s) == RStrip(LStrip(s))

\* str.startswith(p)
StartsWith(s, p) == Len(s) >= Len(p) /\ SubSeq(s, 1, Len(p)) = p

\* `needle in s`: scan the start positions left to right
RECURSIVE FindFrom(_, _, _)
FindFrom(needle, s, k) ==
    IF k + Len(needle) - 1 > Len(s) THEN FALSE
    ELSE IF SubSeq(s, k, k + Len(needle) - 1) = needle THEN TRUE
    ELSE FindFrom(needle, s, k + 1)

In(needle, s) == FindFrom(needle, s, 1)

\* str.splitlines() for texts whose only line boundary is "\n"
RECURSIVE SplitFrom(_, _)
SplitFrom(s, cur) ==
    IF s = <<>> THEN (IF cur = <<>> THEN <<>> ELSE <<cur>>)
    ELSE IF Head(s) = "\n" THEN <<cur>> \o SplitFrom(Tail(s), <<>>)
    ELSE SplitFrom(Tail(s), Append(cur, Head(s)))

SplitLines(s) == SplitFrom(s, <<>>)

\* sep.join(lines)
RECURSIVE Join(_, _)
Join(sep, ls) ==
    IF ls = <<>> THEN <<>>
    ELSE IF Len(ls) = 1 THEN ls[1]
    ELSE ls[1] \o sep \o Join(sep, Tail(ls))

\* str.strip(chars): characters of the set chars taken off both ends
RECURSIVE LStripOf(_, _)
LStripOf(s, chars) ==
    IF s # <<>> /\ Head(s) \in chars THEN LStripOf(Tail(s), chars) ELSE s

RECURSIVE RStripOf(_, _)
RStripOf(s, chars) ==
    IF s # <<>> /\ s[Len(s)] \in chars
    THEN RStripOf(SubSeq(s, 1, Len(s) - 1), chars) ELSE s

StripOf(s, chars) == RStripOf(LStripOf(s, chars), chars)

\* str.replace(old, new): the non-overlapping occurrences of old, found from
\* left to right, are replaced (old is not empty)
RECURSIVE Replace(_, _, _)
Replace(s, old, new) ==
    IF Len(s) < Len(old) THEN s
    ELSE IF SubSeq(s, 1, Len(old)) = old
    THEN new \o Replace(SubSeq(s, Len(old) + 1, Len(s)), old, new)
    ELSE <<Head(s)>> \o Replace(Tail(s), old, new)

\* all texts over alphabet A of length at most n
RECURSIVE TextsUpTo(_, _)
TextsUpTo(A, n) ==
    IF n = 0 THEN {<<>>}
    ELSE LET shorter == TextsUpTo(A, n - 1)
         IN  shorter \cup {Append(t, c) : t \in shorter, c \in A}

(***************************************************************************)
(* Review classifier                                                       *)
(***************************************************************************)
pass == <<"p", "a", "s", "s">>

\* (variant of peer_review_design: the text is not lower-cased)
peer_review_design_nolower(content) == IF In(pass, content) THEN "Pass" ELSE "Fail"

\* Full_Code.py: "Pass" if "pass" in msg.content.lower() else "Fail"
peer_review_design(content) == IF In(pass, Lower(content)) THEN "Pass" ELSE "Fail"

\* (variant of peer_review: a text with neither word gets a third answer)
peer_review_api_strict(content) ==
    LET review_result == Lower(Strip(content))
    IN  IF In(pass, review_result) THEN "Pass"
        ELSE IF In(<<"f", "a", "i", "l">>, review_result) THEN "Fail"
        ELSE "Unknown"

\* fast_api.py: review_result = msg.content.strip().lower()
peer_review_api(content) ==
    LET review_result == Lower(Strip(content))
    IN  IF In(pass, review_result) THEN "Pass" ELSE "Fail"

\* code_review.py: the same two lines
peer_review_ui(content) ==
    LET review_result == Lower(Strip(content))
    IN  IF In(pass, review_result) THEN "Pass" ELSE "Fail"

peer_review(v, content) ==
    CASE v = "design" -> peer_review_design(content)
      [] v = "api"    -> peer_review_api(content)
      [] v = "ui"     -> peer_review_ui(content)

(***************************************************************************)
(* colorize_python_code (code_review.py)                                   *)
(***************************************************************************)
GREEN == <<"ESC", "[", "9", "2", "m">>
CYAN  == <<"ESC", "[", "9", "6", "m">>
RESET == <<"ESC", "[", "0", "m">>

DQ3 == <<"\"", "\"", "\"">>
SQ3 == <<"'", "'", "'">>

\* (variant of ColorizeLine: only the double-quote marker is recognised)
ColorizeLine_dq_only(flag, line) ==
    LET stripped == Strip(line)
    IN  IF StartsWith(stripped, DQ3)
        THEN [out |-> CYAN \o line \o RESET, flag |-> ~flag, cls |-> "string"]
        ELSE IF flag
        THEN [out |-> CYAN \o line \o RESET, flag |-> flag, cls |-> "string"]
        ELSE IF StartsWith(stripped, <<"#">>)
        THEN [out |-> CYAN \o line \o RESET, flag |-> flag, cls |-> "comment"]
        ELSE [out |-> GREEN \o line \o RESET, flag |-> flag, cls |-> "code"]

\* (variant of ColorizeLine: a marker anywhere in the line counts)
ColorizeLine_contains(flag, line) ==
    LET stripped == Strip(line)
    IN  IF In(DQ3, stripped) \/ In(SQ3, stripped)
        THEN [out |-> CYAN \o line \o RESET, flag |-> ~flag, cls |-> "string"]
        ELSE IF flag
        THEN [out |-> CYAN \o line \o RESET, flag |-> flag, cls |-> "string"]
        ELSE IF StartsWith(stripped, <<"#">>)
        THEN [out |-> CYAN \o line \o RESET, flag |-> flag, cls |-> "comment"]
        ELSE [out |-> GREEN \o line \o RESET, flag |-> flag, cls |-> "code"]

\* (variant of ColorizeLine: the trimmed text is emitted instead of the line)
ColorizeLine_trimmed(flag, line) ==
    LET stripped == Strip(line)
    IN  IF StartsWith(stripped, DQ3) \/ StartsWith(stripped, SQ3)
        THEN [out |-> CYAN \o stripped \o RESET, flag |-> ~flag, cls |-> "string"]
        ELSE IF flag
        THEN [out |-> CYAN \o stripped \o RESET, flag |-> flag, cls |-> "string"]
        ELSE IF StartsWith(stripped, <<"#">>)
        THEN [out |-> CYAN \o stripped \o RESET, flag |-> flag, cls |-> "comment"]
        ELSE [out |-> GREEN \o stripped \o RESET, flag |-> flag, cls |-> "code"]

\* One iteration of the for loop: the line appended to colored_lines, the
\* value of in_docstring afterwards, and the branch of the if/elif chain taken.
ColorizeLine(flag, line) ==
    LET stripped == Strip(line)
    IN  IF StartsWith(stripped, DQ3) \/ StartsWith(stripped, SQ3)
        THEN IF ~flag
             THEN [out |-> CYAN \o line \o RESET, flag |-> TRUE,  cls |-> "string"]
             ELSE [out |-> CYAN \o line \o RESET, flag |-> FALSE, cls |-> "string"]
        ELSE IF flag
        THEN [out |-> CYAN \o line \o RESET, flag |-> flag, cls |-> "string"]
        ELSE IF StartsWith(stripped, <<"#">>)
        THEN [out |-> CYAN \o line \o RESET, flag |-> flag, cls |-> "comment"]
        ELSE [out |-> GREEN \o line \o RESET, flag |-> flag, cls |-> "code"]

RECURSIVE ColorizeLoop(_, _, _)
ColorizeLoop(lines, flag, acc) ==
    IF lines = <<>> THEN acc
    ELSE LET r == ColorizeLine(flag, Head(lines))
         IN  ColorizeLoop(Tail(lines), r.flag, Append(acc, r.out))

\* lines = code.splitlines(); ...; return "\n".join(colored_lines)
\* (each local of the function is bound once to its value)
colorize_python_code(code) ==
    CHOOSE out \in {Join(<<"\n">>, colored) :
                      colored \in {ColorizeLoop(lines, FALSE, <<>>) :
                                     lines \in {SplitLines(c) : c \in {code}}}} : TRUE

(***************************************************************************)
(* Clean-up of the generated code                                          *)
(***************************************************************************)
python == <<"p", "y", "t", "h", "o", "n">>

\* the grave accent (U+0060) of a markdown code fence, as one element
TICK == "TICK"

\* return raw_code.strip(TICK).replace("python", "").strip()
clean_python_code(raw_code) == Strip(Replace(StripOf(raw_code, {TICK}), python, <<>>))

\* clean_code = raw_code.strip(TICK).replace("python", "").strip()
clean_code(raw_code) == Strip(Replace(StripOf(raw_code, {TICK}), python, <<>>))

\* the clean-up as the program at hand performs it
Clean(site, raw_code) ==
    IF site = "api" THEN clean_python_code(raw_code) ELSE clean_code(raw_code)

(***************************************************************************)
(* Workflow: State schemas, stage functions, graphs                        *)
(***************************************************************************)
START == "__start__"
END   == "__end__"

\* class State(TypedDict)
State_design == {"idea", "draft_design", "improved_design", "final_doc"}
State_api    == {"topic", "code", "improved_code", "final_code"}
State_ui     == {"topic", "code", "improved_code", "final_code"}

Schema(v) ==
    CASE v = "design" -> State_design
      [] v = "api"    -> State_api
      [] v = "ui"     -> State_ui

\* the key of the dict passed to chain.invoke
InputField(v) == IF v = "design" THEN "idea" ELSE "topic"

\* A stage function applied to the State it is given and the msg.content its
\* llm.invoke call returns: the prompt it sends, the State keys it reads to
\* build the prompt, and the partial State it returns.

\* ---- Full_Code.py
generate_api_design(st, content) ==
    [prompt |-> <<"Generate a REST API design for: ">> \o st["idea"]
                 \o <<". Include endpoints, request/response formats.">>,
     reads  |-> {"idea"},
     update |-> [draft_design |-> content]]

peer_review_design_call(st) ==
    [prompt |-> <<"Check if this API design follows REST best practices:\n">>
                 \o st["draft_design"] \o <<"\nReturn 'Pass' or 'Fail'.">>,
     reads  |-> {"draft_design"}]

\* (variant of improve_design: the result is stored under the draft's key)
improve_design_overwrites(st, content) ==
    [prompt |-> <<"Improve this API design by adding authentication, error handling, pagination if needed:\n">>
                 \o st["draft_design"],
     reads  |-> {"draft_design"},
     update |-> [draft_design |-> content]]

improve_design(st, content) ==
    [prompt |-> <<"Improve this API design by adding authentication, error handling, pagination if needed:\n">>
                 \o st["draft_design"],
     reads  |-> {"draft_design"},
     update |-> [improved_design |-> content]]

\* (variant of manager_review: the prompt is built from the draft)
manager_review_design_draft(st, content) ==
    [prompt |-> <<"Convert this API design into a clean OpenAPI-style documentation with clear formatting:\n">>
                 \o st["draft_design"],
     reads  |-> {"draft_design"},
     update |-> [final_doc |-> content]]

manager_review_design(st, content) ==
    [prompt |-> <<"Convert this API design into a clean OpenAPI-style documentation with clear formatting:\n">>
                 \o st["improved_design"],
     reads  |-> {"improved_design"},
     update |-> [final_doc |-> content]]

\* ---- fast_api.py
\* (variant of improve_code: the prompt is built from improved_code, not yet set)
improve_code_api_early(st, content) ==
    [prompt |-> <<"Here is the current Python code:">>
                 \o (IF "improved_code" \in DOMAIN st THEN st["improved_code"] ELSE <<>>)
                 \o <<"Improve this code by: 1. ... 4.">>,
     reads  |-> {"improved_code"},
     update |-> [improved_code |-> content]]

generate_code_api(st, content) ==
    [prompt |-> <<"Generate a python code with proper indentation about ">> \o st["topic"],
     reads  |-> {"topic"},
     update |-> [code |-> content]]

peer_review_api_call(st) ==
    [prompt |-> <<"You are a code reviewer. The user wrote the following Python code:">>
                 \o st["code"] \o <<"Please do the following: 1. ... 4. Finally, return only one word">>,
     reads  |-> {"code"}]

improve_code_api(st, content) ==
    [prompt |-> <<"Here is the current Python code:">> \o st["code"]
                 \o <<"Improve this code by: 1. ... 4.">>,
     reads  |-> {"code"},
     update |-> [improved_code |-> content]]

manager_review_api(st, content) ==
    [prompt |-> <<"You are acting as a senior engineering manager reviewing this Python code:">>
                 \o st["improved_code"] \o <<"Please do the following: 1. ... 4.">>,
     reads  |-> {"improved_code"},
     update |-> [final_code |-> Strip(content)]]

\* ---- code_review.py
generate_code_ui(st, content) ==
    [prompt |-> <<"Generate a python code with proper indentation about ">> \o st["topic"],
     reads  |-> {"topic"},
     update |-> [code |-> content]]

peer_review_ui_call(st) ==
    [prompt |-> <<"You are a code reviewer. The user wrote the following Python code:">>
                 \o st["code"] \o <<"Please do the following: 1. ... 4. Finally, return only one word">>,
     reads  |-> {"code"}]

improve_code_ui(st, content) ==
    [prompt |-> <<"Here is the current Python code:">> \o st["code"]
                 \o <<"Improve this code by: 1. ... 4.">>,
     reads  |-> {"code"},
     update |-> [improved_code |-> content]]

manager_review_ui(st, content) ==
    [prompt |-> <<"You are acting as a senior engineering manager reviewing this Python code:">>
                 \o st["improved_code"] \o <<"Please do the following: 1. ... 4.">>,
     reads  |-> {"improved_code"},
     update |-> [final_code |-> colorize_python_code(Strip(content))]]

\* ---- workflow = StateGraph(State); add_node / add_edge / add_conditional_edges; compile()
\* (variant of workflow_design: improve_design leads back to generate_api_design)
workflow_design_loop ==
    [nodes    |-> {"generate_api_design", "improve_design", "manager_review"},
     edges    |-> (START :> "generate_api_design") @@ ("improve_design" :> "generate_api_design")
                   @@ ("manager_review" :> END),
     branches |-> ("generate_api_design" :>
                      [path |-> "peer_review_design",
                       ends |-> ("Fail" :> "improve_design") @@ ("Pass" :> END)])]

workflow_design ==
    [nodes    |-> {"generate_api_design", "improve_design", "manager_review"},
     edges    |-> (START :> "generate_api_design") @@ ("improve_design" :> "manager_review")
                   @@ ("manager_review" :> END),
     branches |-> ("generate_api_design" :>
                      [path |-> "peer_review_design",
                       ends |-> ("Fail" :> "improve_design") @@ ("Pass" :> END)])]

workflow_api ==
    [nodes    |-> {"generate_code", "improve_code", "manager_review"},
     edges    |-> (START :> "generate_code") @@ ("improve_code" :> "manager_review")
                   @@ ("manager_review" :> END),
     branches |-> ("generate_code" :>
                      [path |-> "peer_review",
                       ends |-> ("Fail" :> "improve_code") @@ ("Pass" :> END)])]

workflow_ui ==
    [nodes    |-> {"generate_code", "improve_code", "manager_review"},
     edges    |-> (START :> "generate_code") @@ ("improve_code" :> "manager_review")
                   @@ ("manager_review" :> END),
     branches |-> ("generate_code" :>
                      [path |-> "peer_review",
                       ends |-> ("Fail" :> "improve_code") @@ ("Pass" :> END)])]

chain(v) ==
    CASE v = "design" -> workflow_design
      [] v = "api"    -> workflow_api
      [] v = "ui"     -> workflow_ui

\* the function registered under a node name
NodeFn(v, node, st, content) ==
    CASE v = "design" /\ node = "generate_api_design" -> generate_api_design(st, content)
      [] v = "design" /\ node = "improve_design"      -> improve_design(st, content)
      [] v = "design" /\ node = "manager_review"      -> manager_review_design(st, content)
      [] v = "api" /\ node = "generate_code"          -> generate_code_api(st, content)
      [] v = "api" /\ node = "improve_code"           -> improve_code_api(st, content)
      [] v = "api" /\ node = "manager_review"         -> manager_review_api(st, content)
      [] v = "ui" /\ node = "generate_code"           -> generate_code_ui(st, content)
      [] v = "ui" /\ node = "improve_code"            -> improve_code_ui(st, content)
      [] v = "ui" /\ node = "manager_review"          -> manager_review_ui(st, content)

\* the path function of the conditional edge
PathCall(v, st) ==
    CASE v = "design" -> peer_review_design_call(st)
      [] v = "api"    -> peer_review_api_call(st)
      [] v = "ui"     -> peer_review_ui_call(st)

(***************************************************************************)
(* Workflow: chain.invoke, one step per stage                              *)
(***************************************************************************)
Invocations == 1..NumInv
Variants    == {"design", "api", "ui"}

\* the query parameter of request i: a text of its own, so that a value that
\* leaks from one invocation into another is told apart from the right one
Inputs(i) == {<<"q", ToString(i)>>}

\* what llm.invoke may return as msg.content
Responses == {<<"P", "A", "S", "S">>, <<" ", "#", "c", "\n", "x", "\n">>}

NoState == <<>>

\* a node's returned dict written into the State channels
Merge(st, upd) ==
    [k \in DOMAIN st \cup DOMAIN upd |-> IF k \in DOMAIN upd THEN upd[k] ELSE st[k]]

\* (variant of ApplyUpdate: one State dict shared by all invocations)
ApplyUpdate_shared(states, i, upd) == [j \in DOMAIN states |-> Merge(states[j], upd)]

\* the State of invocation i after a node returned upd
ApplyUpdate(states, i, upd) == [states EXCEPT ![i] = Merge(@, upd)]

\* (variant of RouteState: the returned word is kept in the State)
RouteState_stores(st, returned) == Merge(st, [verdict |-> returned])

\* the State after the path function of a conditional edge returned
RouteState(st, returned) == st

\* where the engine goes once a node has run
AfterNode(g, node) ==
    IF node \in DOMAIN g.branches
    THEN [kind |-> "branch", node |-> node]
    ELSE [kind |-> "node", node |-> g.edges[node]]

\* (variant of AfterBranch: the two entries of the edge table swapped)
AfterBranch_swapped(g, node, returned) ==
    [kind |-> "node", node |-> g.branches[node].ends[IF returned = "Pass" THEN "Fail" ELSE "Pass"]]

\* where the engine goes once the path function of node's conditional edge returned
AfterBranch(g, node, returned) == [kind |-> "node", node |-> g.branches[node].ends[returned]]

\* (variant of chain_invoke_raises: the error is caught and the State so far returned)
chain_invoke_partial(st) == [kind |-> "state", value |-> st]

\* chain.invoke when a llm.invoke call raises: nothing catches it
chain_invoke_raises(st) == [kind |-> "error", value |-> NoState]

\* chain.invoke when the run reaches END
chain_invoke_returns(st) == [kind |-> "state", value |-> st]

FlowInit ==
    /\ variant \in Variants
    /\ graph = chain(variant)
    /\ pc = [i \in Invocations |-> [kind |-> "idle", node |-> START]]
    /\ state = [i \in Invocations |-> NoState]
    /\ visited = [i \in Invocations |-> <<>>]
    /\ calls = [i \in Invocations |-> <<>>]
    /\ replies = [i \in Invocations |-> <<>>]
    /\ verdict = [i \in Invocations |-> "none"]
    /\ result = [i \in Invocations |-> [kind |-> "none", value |-> NoState]]

FlowIdle ==
    /\ variant = "design"
    /\ graph = chain(variant)
    /\ pc = [i \in {} |-> i]
    /\ state = pc /\ visited = pc /\ calls = pc /\ replies = pc /\ verdict = pc /\ result = pc

\* state = chain.invoke({"idea": idea})
Start(i) ==
    /\ pc[i].kind = "idle"
    /\ \E text \in Inputs(i) :
          state' = [state EXCEPT ![i] = (InputField(variant) :> text)]
    /\ pc' = [pc EXCEPT ![i] = [kind |-> "node", node |-> graph.edges[START]]]
    /\ UNCHANGED <<variant, graph, visited, calls, replies, verdict, result, rvVars, czVars, clVars>>

\* one node of the graph runs: its function calls llm.invoke, which returns
RunNode(i, node) ==
    /\ pc[i] = [kind |-> "node", node |-> node]
    /\ node \in graph.nodes
    /\ \E content \in Responses :
          \E r \in {NodeFn(variant, node, state[i], content)} :
              /\ state' = ApplyUpdate(state, i, r.update)
              /\ calls' = [calls EXCEPT ![i] =
                              Append(@, [stage |-> node, prompt |-> r.prompt, reads |-> r.reads])]
              /\ replies' = [replies EXCEPT ![i] = Append(@, content)]
    /\ visited' = [visited EXCEPT ![i] = Append(@, node)]
    /\ pc' = [pc EXCEPT ![i] = AfterNode(graph, node)]
    /\ UNCHANGED <<variant, graph, verdict, result, rvVars, czVars, clVars>>

GenerateNode(v) == IF v = "design" THEN "generate_api_design" ELSE "generate_code"
ImproveNode(v)  == IF v = "design" THEN "improve_design" ELSE "improve_code"
FinalizeNode(v) == "manager_review"
ReviewFn(v)     == IF v = "design" THEN "peer_review_design" ELSE "peer_review"

Generate(i) ==
    /\ pc[i].node = GenerateNode(variant)
    /\ RunNode(i, GenerateNode(variant))

Improve(i) ==
    /\ pc[i].node = ImproveNode(variant)
    /\ RunNode(i, ImproveNode(variant))

Finalize(i) ==
    /\ pc[i].node = FinalizeNode(variant)
    /\ RunNode(i, FinalizeNode(variant))

\* the conditional edge: the path function calls llm.invoke and returns a word
Review(i) ==
    /\ pc[i].kind = "branch"
    /\ \E content \in Responses :
          LET c        == PathCall(variant, state[i])
              returned == peer_review(variant, content)
          IN  /\ state' = [state EXCEPT ![i] = RouteState(@, returned)]
              /\ calls' = [calls EXCEPT ![i] =
                              Append(@, [stage |-> graph.branches[pc[i].node].path,
                                         prompt |-> c.prompt, reads |-> c.reads])]
              /\ replies' = [replies EXCEPT ![i] = Append(@, content)]
              /\ verdict' = [verdict EXCEPT ![i] = returned]
              /\ pc' = [pc EXCEPT ![i] = AfterBranch(graph, pc[i].node, returned)]
    /\ visited' = [visited EXCEPT ![i] = Append(@, graph.branches[pc[i].node].path)]
    /\ UNCHANGED <<variant, graph, result, rvVars, czVars, clVars>>

\* the stage that is about to call llm.invoke, and its call
Pending(i) ==
    IF pc[i].kind = "branch"
    THEN LET c == PathCall(variant, state[i])
         IN  [stage |-> graph.branches[pc[i].node].path, prompt |-> c.prompt, reads |-> c.reads]
    ELSE LET r == NodeFn(variant, pc[i].node, state[i], <<>>)
         IN  [stage |-> pc[i].node, prompt |-> r.prompt, reads |-> r.reads]

\* llm.invoke raises in the stage that is running
LlmRaises(i) ==
    /\ \/ pc[i].kind = "branch"
       \/ pc[i].kind = "node" /\ pc[i].node \in graph.nodes
    /\ calls' = [calls EXCEPT ![i] = Append(@, Pending(i))]
    /\ visited' = [visited EXCEPT ![i] = Append(@, Pending(i).stage)]
    /\ pc' = [pc EXCEPT ![i] = [kind |-> "raised", node |-> pc[i].node]]
    /\ result' = [result EXCEPT ![i] = chain_invoke_raises(state[i])]
    /\ UNCHANGED <<variant, graph, state, replies, verdict, rvVars, czVars, clVars>>

\* the run reached END: chain.invoke returns the State
Return(i) ==
    /\ pc[i] = [kind |-> "node", node |-> END]
    /\ pc' = [pc EXCEPT ![i] = [kind |-> "returned", node |-> END]]
    /\ result' = [result EXCEPT ![i] = chain_invoke_returns(state[i])]
    /\ UNCHANGED <<variant, graph, state, visited, calls, replies, verdict, rvVars, czVars, clVars>>

FlowNext ==
    \E i \in Invocations :
        \/ Start(i)
        \/ Generate(i)
        \/ Review(i)
        \/ Improve(i)
        \/ Finalize(i)
        \/ LlmRaises(i)
        \/ Return(i)

(***************************************************************************)
(* The review functions applied to one response text                       *)
(***************************************************************************)
ReviewAlphabet == {"p", "a", "s", "P", "S", " ", "\n"}

\* the response texts the specification names, and two with outer whitespace
T_PASS         == <<"P", "A", "S", "S">>
T_PassLooks    == <<"P", "a", "s", "s", ",", " ", "l", "o", "o", "k", "s", " ", "f", "i", "n", "e">>
T_NeedsWork    == <<"T", "h", "i", "s", " ", "n", "e", "e", "d", "s", " ", "w", "o", "r", "k", ",",
                    " ", "f", "a", "i", "l">>
T_Acceptable   == <<"A", "c", "c", "e", "p", "t", "a", "b", "l", "e">>
T_PaddedPass   == <<" ", "P", "a", "s", "s", "\n">>
T_PaddedFail   == <<"\t", "F", "a", "i", "l", " ">>
T_Refusal      == <<"I", " ", "c", "a", "n", "n", "o", "t">>

ReviewExamples ==
    {T_PASS, T_PassLooks, T_NeedsWork, T_Acceptable, T_PaddedPass, T_PaddedFail, T_Refusal}

ReviewTexts == TextsUpTo(ReviewAlphabet, MaxTextLen) \cup ReviewExamples

RvInit ==
    /\ rv_text \in ReviewTexts
    /\ rv_pc = "ready"
    /\ rv_design = "none" /\ rv_api = "none" /\ rv_ui = "none"

RvIdle ==
    /\ rv_text = <<>>
    /\ rv_pc = "off"
    /\ rv_design = "none" /\ rv_api = "none" /\ rv_ui = "none"

ReviewDesign ==
    /\ rv_pc = "ready" /\ rv_design = "none"
    /\ rv_design' = peer_review_design(rv_text)
    /\ UNCHANGED <<rv_text, rv_pc, rv_api, rv_ui, flowVars, czVars, clVars>>

ReviewApi ==
    /\ rv_pc = "ready" /\ rv_api = "none"
    /\ rv_api' = peer_review_api(rv_text)
    /\ UNCHANGED <<rv_text, rv_pc, rv_design, rv_ui, flowVars, czVars, clVars>>

ReviewUi ==
    /\ rv_pc = "ready" /\ rv_ui = "none"
    /\ rv_ui' = peer_review_ui(rv_text)
    /\ UNCHANGED <<rv_text, rv_pc, rv_design, rv_api, flowVars, czVars, clVars>>

RvNext == ReviewDesign \/ ReviewApi \/ ReviewUi

(***************************************************************************)
(* colorize_python_code applied to one text, one step per loop iteration   *)
(***************************************************************************)
L_dq   == DQ3
L_sq   == SQ3
L_doc  == <<"\"", "\"", "\"", "d", "o", "c", "\"", "\"", "\"">>
L_x    == <<"x", "=", "1">>
L_y    == <<"y", "=", "2">>
L_c    == <<"#", " ", "c">>
L_idq  == <<" ", " ">> \o DQ3
L_ic   == <<" ", "#", "c">>
L_mid  == <<"x", " ", "=", " ", "\"", "\"", "\"", "a", "b", "c">>

L_hq   == <<"#", " ", "'", "'", "'">>
L_esc  == GREEN \o <<"z">> \o RESET
\* a code line with leading and trailing whitespace
L_pad  == <<"\t", "y", " ">>

LineSet == {L_dq, L_sq, L_doc, L_x, L_c, L_idq, L_ic, L_mid, L_hq, L_esc, L_pad, <<>>}

\* the six lines the specification names
SixLines == <<L_doc, L_x, L_c, L_dq, L_y, L_dq>>

RECURSIVE LinesUpTo(_, _)
LinesUpTo(S, n) ==
    IF n = 0 THEN {<<>>}
    ELSE LET shorter == LinesUpTo(S, n - 1)
         IN  shorter \cup {Append(ls, l) : ls \in shorter, l \in S}

CodeTexts == {Join(<<"\n">>, ls) : ls \in LinesUpTo(LineSet, MaxLines)}
                \cup {Join(<<"\n">>, SixLines)}

CzInit ==
    /\ cz_code \in CodeTexts
    /\ cz_pc = "call"
    /\ cz_lines = <<>> /\ cz_i = 0 /\ in_docstring = FALSE /\ colored_lines = <<>>
    /\ cz_flags = <<>> /\ cz_cls = <<>> /\ cz_out = <<>>

CzIdle ==
    /\ cz_code = <<>>
    /\ cz_pc = "off"
    /\ cz_lines = <<>> /\ cz_i = 0 /\ in_docstring = FALSE /\ colored_lines = <<>>
    /\ cz_flags = <<>> /\ cz_cls = <<>> /\ cz_out = <<>>

\* colored_lines = []; in_docstring = False; code.splitlines()
CzEnter ==
    /\ cz_pc = "call"
    /\ cz_lines' = SplitLines(cz_code)
    /\ cz_i' = 0
    /\ colored_lines' = <<>>
    /\ in_docstring' = FALSE
    /\ cz_pc' = "loop"
    /\ UNCHANGED <<cz_code, cz_flags, cz_cls, cz_out, flowVars, rvVars, clVars>>

\* one iteration of `for line in code.splitlines()`
CzLine ==
    /\ cz_pc = "loop" /\ cz_i < Len(cz_lines)
    /\ LET r == ColorizeLine(in_docstring, cz_lines[cz_i + 1])
       IN  /\ colored_lines' = Append(colored_lines, r.out)
           /\ in_docstring' = r.flag
           /\ cz_cls' = Append(cz_cls, r.cls)
    /\ cz_flags' = Append(cz_flags, in_docstring)
    /\ cz_i' = cz_i + 1
    /\ UNCHANGED <<cz_code, cz_pc, cz_lines, cz_out, flowVars, rvVars, clVars>>

\* return "\n".join(colored_lines)
CzReturn ==
    /\ cz_pc = "loop" /\ cz_i = Len(cz_lines)
    /\ cz_out' = Join(<<"\n">>, colored_lines)
    /\ cz_pc' = "done"
    /\ UNCHANGED <<cz_code, cz_lines, cz_i, in_docstring, colored_lines, cz_flags, cz_cls,
                   flowVars, rvVars, clVars>>

CzNext == CzEnter \/ CzLine \/ CzReturn

(***************************************************************************)
(* The clean-up applied to one raw_code text, then to its own result       *)
(***************************************************************************)
fence == <<TICK, TICK, TICK>>

\* the pieces the enumerated raw_code texts are put together from
Chunks == {<<TICK>>, fence, <<" ">>, <<"\n">>, python,
           <<"p", "y", "t">>, <<"h", "o", "n">>, <<"x">>}

\* a fenced block as a model reply carries it, and the same after a line break
R_fenced == fence \o python \o <<"\n", "x", "\n">> \o fence
R_led    == <<"\n">> \o R_fenced

RECURSIVE ConcatUpTo(_, _)
ConcatUpTo(S, n) ==
    IF n = 0 THEN {<<>>}
    ELSE LET shorter == ConcatUpTo(S, n - 1)
         IN  shorter \cup {t \o c : t \in shorter, c \in S}

RawTexts == ConcatUpTo(Chunks, MaxChunks) \cup {R_fenced, R_led}

ClInit ==
    /\ cl_site \in {"api", "ui"}
    /\ cl_raw \in RawTexts
    /\ cl_pc = "call"
    /\ cl_out = <<>> /\ cl_again = <<>>

ClIdle ==
    /\ cl_site = "api"
    /\ cl_raw = <<>>
    /\ cl_pc = "off"
    /\ cl_out = <<>> /\ cl_again = <<>>

\* clean_code = clean_python_code(raw_code)
CleanOnce ==
    /\ cl_pc = "call"
    /\ cl_out' = Clean(cl_site, cl_raw)
    /\ cl_pc' = "cleaned"
    /\ UNCHANGED <<cl_site, cl_raw, cl_again, flowVars, rvVars, czVars>>

\* the clean-up applied to its own result
CleanAgain ==
    /\ cl_pc = "cleaned"
    /\ cl_again' = Clean(cl_site, cl_out)
    /\ cl_pc' = "again"
    /\ UNCHANGED <<cl_site, cl_raw, cl_out, flowVars, rvVars, czVars>>

ClNext == CleanOnce \/ CleanAgain

(***************************************************************************)
(* Specifications                                                          *)
(***************************************************************************)
Init == FlowInit /\ RvIdle /\ CzIdle /\ ClIdle
Next == FlowNext
Spec == Init /\ [][Next]_vars

\* The workflow when every llm.invoke call returns: chain.invoke runs the
\* stages of one invocation one after the other on its own thread, each
\* blocking on its call, so a stage that can run does run.
NextLive ==
    \E i \in Invocations :
        \/ Start(i)
        \/ Generate(i)
        \/ Review(i)
        \/ Improve(i)
        \/ Finalize(i)
        \/ Return(i)

\* the next step of invocation i once chain.invoke has been called
Step(i) == Generate(i) \/ Review(i) \/ Improve(i) \/ Finalize(i) \/ Return(i)

\* The process keeps running: while some invocation has a next step, a step
\* is taken.  (Fairness for each thread separately implies this.)
Fairness == WF_vars(\E i \in Invocations : Step(i))

SpecLive == Init /\ [][NextLive]_vars /\ Fairness

InitReview == FlowIdle /\ RvInit /\ CzIdle /\ ClIdle
NextReview == RvNext
SpecReview == InitReview /\ [][NextReview]_vars

InitColor == FlowIdle /\ RvIdle /\ CzInit /\ ClIdle
NextColor == CzNext
SpecColor == InitColor /\ [][NextColor]_vars

InitClean == FlowIdle /\ RvIdle /\ CzIdle /\ ClInit
NextClean == ClNext
SpecClean == InitClean /\ [][NextClean]_vars

(***************************************************************************)
(* Properties                                                              *)
(***************************************************************************)
DraftField(v)    == IF v = "design" THEN "draft_design" ELSE "code"
ImprovedField(v) == IF v = "design" THEN "improved_design" ELSE "improved_code"
FinalField(v)    == IF v = "design" THEN "final_doc" ELSE "final_code"

Returned(i) == pc[i].kind = "returned"
Raised(i)   == pc[i].kind = "raised"

PassPath(v) == <<GenerateNode(v), ReviewFn(v)>>
FailPath(v) == <<GenerateNode(v), ReviewFn(v), ImproveNode(v), FinalizeNode(v)>>

\* C1: an invocation whose review verdict is Pass has run exactly Generate and
\* Review, never Improve or Finalize, and returns a State without the improved
\* and final fields; an invocation that returns after a Fail verdict has run
\* exactly Generate, Review, Improve, Finalize in that order and returns a
\* State with all four fields.
C1_PathCoverage ==
    \A i \in Invocations :
        /\ verdict[i] = "Pass" =>
              /\ visited[i] = PassPath(variant)
              /\ DOMAIN state[i] = {InputField(variant), DraftField(variant)}
        /\ Returned(i) => verdict[i] \in {"Pass", "Fail"}
        /\ Returned(i) /\ verdict[i] = "Pass" =>
              /\ result[i].kind = "state"
              /\ DOMAIN result[i].value = {InputField(variant), DraftField(variant)}
        /\ Returned(i) /\ verdict[i] = "Fail" =>
              /\ visited[i] = FailPath(variant)
              /\ result[i].kind = "state"
              /\ DOMAIN result[i].value = Schema(variant)

C1_Witness ==
    \E i, j \in Invocations :
        /\ Returned(i) /\ verdict[i] = "Pass"
        /\ Returned(j) /\ verdict[j] = "Fail"

\* C2: each review function answers Pass exactly when the text, letter case
\* ignored, contains "pass", and Fail otherwise; the three functions agree on
\* every text; the four texts the specification names get Pass, Pass, Fail, Fail.
SpellsPassAt(t, k) ==
    /\ t[k] \in {"p", "P"}
    /\ t[k + 1] \in {"a", "A"}
    /\ t[k + 2] \in {"s", "S"}
    /\ t[k + 3] \in {"s", "S"}

HasPass(t) == \E k \in 1..(Len(t) - 3) : SpellsPassAt(t, k)

ExpectedVerdict(t) == IF HasPass(t) THEN "Pass" ELSE "Fail"

C2_Classifier ==
    /\ rv_design # "none" => rv_design = ExpectedVerdict(rv_text)
    /\ rv_api # "none" => rv_api = ExpectedVerdict(rv_text)
    /\ rv_ui # "none" => rv_ui = ExpectedVerdict(rv_text)
    /\ rv_design # "none" /\ rv_api # "none" => rv_design = rv_api
    /\ rv_api # "none" /\ rv_ui # "none" => rv_api = rv_ui
    /\ rv_text \in {T_PASS, T_PassLooks} => {rv_design, rv_api, rv_ui} \subseteq {"none", "Pass"}
    /\ rv_text \in {T_NeedsWork, T_Acceptable} =>
            {rv_design, rv_api, rv_ui} \subseteq {"none", "Fail"}

C2_Witness ==
    /\ rv_text = T_PaddedPass
    /\ rv_design = "Pass" /\ rv_api = "Pass" /\ rv_ui = "Pass"

\* C3: the State of an invocation only holds fields of its variant's schema,
\* a step never removes a field, and a field that has a value keeps it.
C3_WriteOnce ==
    /\ [](\A i \in Invocations : DOMAIN state[i] \subseteq Schema(variant))
    /\ [][\A i \in Invocations :
             /\ DOMAIN state[i] \subseteq DOMAIN state'[i]
             /\ \A k \in DOMAIN state[i] : state'[i][k] = state[i][k]]_vars

C3_Witness ==
    \E i \in Invocations :
        /\ DOMAIN state[i] = Schema(variant)
        /\ state[i][DraftField(variant)] # state[i][ImprovedField(variant)]

\* the part of a prompt that is not fixed text
Payload(prompt) == SelectSeq(prompt, LAMBDA c : Len(c) = 1)

\* C4: the prompt of the Finalize call carries the improved field, which is the
\* response to the Improve call, and nothing else that varies; the prompt of the
\* Improve call carries the Generate stage's output.
C4_FinalizeReadsImproved ==
    \A i \in Invocations :
        \A k \in 1..Len(calls[i]) :
            /\ calls[i][k].stage = FinalizeNode(variant) =>
                  /\ k = 4
                  /\ calls[i][k].reads = {ImprovedField(variant)}
                  /\ Payload(calls[i][k].prompt) = state[i][ImprovedField(variant)]
                  /\ Payload(calls[i][k].prompt) = replies[i][3]
            /\ calls[i][k].stage = ImproveNode(variant) =>
                  /\ k = 3
                  /\ calls[i][k].reads = {DraftField(variant)}
                  /\ Payload(calls[i][k].prompt) = state[i][DraftField(variant)]
                  /\ Payload(calls[i][k].prompt) = replies[i][1]

C4_Witness ==
    \E i \in Invocations :
        /\ Returned(i) /\ verdict[i] = "Fail"
        /\ FinalField(variant) \in DOMAIN state[i]
        /\ replies[i][1] # replies[i][3]

\* C5: on the six lines """doc""", x=1, # c, """, y=2, """ the colouring takes
\* the branches string, code, comment, string, string, string; x=1 comes out in
\* the plain-code style and y=2 in the string style.
C5_SixLines ==
    cz_pc = "done" /\ cz_code = Join(<<"\n">>, SixLines) =>
        /\ cz_cls = <<"string", "code", "comment", "string", "string", "string">>
        /\ colored_lines[2] = GREEN \o L_x \o RESET
        /\ colored_lines[5] = CYAN \o L_y \o RESET

\* the first character of a line that is not whitespace, Len + 1 when there is none
FirstInk(line) ==
    IF \A k \in 1..Len(line) : line[k] \in Whitespace THEN Len(line) + 1
    ELSE CHOOSE k \in 1..Len(line) :
            /\ line[k] \notin Whitespace
            /\ \A j \in 1..(k - 1) : line[j] \in Whitespace

InkIs(line, off, c) == FirstInk(line) + off <= Len(line) /\ line[FirstInk(line) + off] = c

IsMarkerLine(line) ==
    \/ \A off \in 0..2 : InkIs(line, off, "\"")
    \/ \A off \in 0..2 : InkIs(line, off, "'")

IsHashLine(line) == InkIs(line, 0, "#")

MarkersBefore(k) == Cardinality({j \in 1..(k - 1) : IsMarkerLine(cz_lines[j])})

\* C6: the lines are handled in order with a flag that starts false; a line
\* whose trimmed text starts with a triple-quote marker is emitted in the string
\* style and flips the flag, otherwise a line met with the flag set is emitted
\* in the string style, otherwise a line whose trimmed text starts with # is
\* emitted in the comment style, otherwise the line is emitted in the plain-code
\* style; so the flag before a line is the parity of the marker lines before it.
C6_LineRule ==
    cz_pc \in {"loop", "done"} =>
        /\ Len(colored_lines) = cz_i /\ Len(cz_flags) = cz_i /\ Len(cz_cls) = cz_i
        /\ in_docstring = (MarkersBefore(cz_i + 1) % 2 = 1)
        /\ \A k \in 1..cz_i :
              LET line == cz_lines[k]
                  flag == cz_flags[k]
              IN  /\ flag = (MarkersBefore(k) % 2 = 1)
                  /\ IF IsMarkerLine(line) \/ flag
                     THEN cz_cls[k] = "string" /\ colored_lines[k] = CYAN \o line \o RESET
                     ELSE IF IsHashLine(line)
                     THEN cz_cls[k] = "comment" /\ colored_lines[k] = CYAN \o line \o RESET
                     ELSE cz_cls[k] = "code" /\ colored_lines[k] = GREEN \o line \o RESET

C6_Witness ==
    /\ cz_pc = "done"
    /\ cz_lines = <<L_sq, L_ic, L_idq>>
    /\ cz_flags = <<FALSE, TRUE, TRUE>>
    /\ in_docstring = FALSE

\* C7: once a llm.invoke call has raised, the invocation has failed for good:
\* no stage runs afterwards, no further call is made (the failed call was made
\* once), and the caller holds an error and no State, whatever fields the
\* State had gathered.
C7_FailFast ==
    [][\A i \in Invocations :
          /\ Raised(i) =>
                /\ pc'[i] = pc[i]
                /\ visited'[i] = visited[i]
                /\ calls'[i] = calls[i]
                /\ result'[i] = result[i]
          /\ Raised(i)' =>
                /\ result'[i].kind = "error"
                /\ result'[i].value = NoState
          /\ Raised(i)' /\ ~Raised(i) =>
                /\ Len(calls'[i]) = Len(calls[i]) + 1
                /\ state'[i] = state[i]]_vars

C7_Witness ==
    \E i \in Invocations :
        /\ Raised(i)
        /\ pc[i].node = FinalizeNode(variant)
        /\ DOMAIN state[i] = Schema(variant) \ {FinalField(variant)}
        /\ result[i].kind = "error"

\* what the State of invocation i must be, from its own request and the
\* responses to its own calls
OwnState(i) ==
    LET v  == variant
        n  == Len(replies[i])
        f0 == IF pc[i].kind = "idle" THEN {} ELSE {InputField(v)}
        f1 == IF n >= 1 THEN {DraftField(v)} ELSE {}
        f3 == IF n >= 3 THEN {ImprovedField(v)} ELSE {}
        f4 == IF n >= 4 THEN {FinalField(v)} ELSE {}
    IN  [k \in f0 \cup f1 \cup f3 \cup f4 |->
            IF k = InputField(v) THEN CHOOSE t \in Inputs(i) : TRUE
            ELSE IF k = DraftField(v) THEN replies[i][1]
            ELSE IF k = ImprovedField(v) THEN replies[i][3]
            ELSE IF v = "design" THEN replies[i][4]
            ELSE IF v = "api" THEN Strip(replies[i][4])
            ELSE colorize_python_code(Strip(replies[i][4]))]

Moved(i) == <<pc[i], state[i], visited[i], calls[i], replies[i], verdict[i], result[i]>>

\* C8: with invocations interleaved in any order, the State of each is made
\* of its own request text and the responses to its own calls, its route
\* follows its own verdict, a step of one invocation leaves every other
\* invocation as it was, and the compiled graph never changes.
C8_Isolation ==
    /\ [](\A i \in Invocations :
            /\ state[i] = OwnState(i)
            /\ Len(replies[i]) >= 2 =>
                  verdict[i] = ExpectedVerdict(replies[i][2])
            /\ \A k \in 1..Len(calls[i]) :
                  Payload(calls[i][k].prompt) \in
                      Inputs(i) \cup {replies[i][j] : j \in 1..Len(replies[i])})
    /\ [][/\ graph' = graph
          /\ \A i, j \in Invocations :
                i # j /\ Moved(i)' # Moved(i) => Moved(j)' = Moved(j)]_vars

C8_Witness ==
    \E i, j \in Invocations :
        /\ i # j
        /\ Returned(i) /\ verdict[i] = "Fail"
        /\ pc[j].kind = "branch"
        /\ state[i][DraftField(variant)] # state[j][DraftField(variant)]

NoRepeat(seq) == \A a, b \in 1..Len(seq) : a # b => seq[a] # seq[b]

\* C9: no stage runs twice in an invocation, and once Improve has run the
\* only stage that runs afterwards is Finalize, after which the run ends.
C9_AtMostOnce ==
    \A i \in Invocations :
        /\ NoRepeat(visited[i])
        /\ Len(calls[i]) = Len(visited[i])
        /\ \A k \in 1..Len(visited[i]) :
              visited[i][k] = ImproveNode(variant) =>
                 /\ Len(visited[i]) <= k + 1
                 /\ Len(visited[i]) = k + 1 => visited[i][k + 1] = FinalizeNode(variant)
                 /\ Len(visited[i]) = k =>
                        \/ Raised(i)
                        \/ pc[i] = [kind |-> "node", node |-> FinalizeNode(variant)]
        /\ visited[i] # <<>> /\ visited[i][Len(visited[i])] = FinalizeNode(variant) =>
              \/ Raised(i)
              \/ Returned(i)
              \/ pc[i] = [kind |-> "node", node |-> END]

C9_Witness ==
    \E i \in Invocations :
        /\ Returned(i)
        /\ Len(visited[i]) = 4
        /\ state[i][ImprovedField(variant)] = <<"P", "A", "S", "S">>

\* C10: the step in which the review function runs leaves the State as it was
\* and only moves the invocation on; the State never holds a field besides the
\* four of the schema, each other than the input being the response to a
\* Generate, Improve or Finalize call.
C10_ReviewFrame ==
    /\ [](\A i \in Invocations :
            /\ DOMAIN state[i] \subseteq Schema(variant)
            /\ Cardinality(DOMAIN state[i]) <=
                  1 + Cardinality({k \in 1..Len(replies[i]) : k # 2}))
    /\ [][\A i \in Invocations :
             pc[i].kind = "branch" /\ pc'[i] # pc[i] =>
                /\ state'[i] = state[i]
                /\ visited'[i] = Append(visited[i], ReviewFn(variant))]_vars

C10_Witness ==
    \E i \in Invocations :
        /\ verdict[i] = "Fail"
        /\ pc[i] = [kind |-> "node", node |-> ImproveNode(variant)]
        /\ DOMAIN state[i] = {InputField(variant), DraftField(variant)}

\* the node the conditional edge of program v selects for the returned word
Routed(v, returned) == AfterBranch(chain(v), GenerateNode(v), returned)

RoutesFine(v, returned, text) ==
    /\ returned \in DOMAIN chain(v).branches[GenerateNode(v)].ends
    /\ Routed(v, returned).node \in chain(v).nodes \cup {END}
    /\ ~HasPass(text) => Routed(v, returned).node = ImproveNode(v)
    /\ HasPass(text) => Routed(v, returned).node = END

\* C11: whatever the review response text is (empty, ambiguous and refusal
\* texts too), the word the review function returns is a key of the
\* conditional edge table, so the edge selects a node; a text without "pass"
\* selects the Improve node.
C11_RoutingTotal ==
    /\ rv_design # "none" => RoutesFine("design", rv_design, rv_text)
    /\ rv_api # "none" => RoutesFine("api", rv_api, rv_text)
    /\ rv_ui # "none" => RoutesFine("ui", rv_ui, rv_text)

C11_Witness ==
    /\ rv_text \in {<<>>, T_Refusal, T_Acceptable}
    /\ rv_design = "Fail" /\ rv_api = "Fail" /\ rv_ui = "Fail"
    /\ Routed("api", rv_api).node = "improve_code"

\* the State field a stage function reads
ReadBy(v, stage) ==
    IF stage = GenerateNode(v) THEN InputField(v)
    ELSE IF stage = FinalizeNode(v) THEN ImprovedField(v)
    ELSE DraftField(v)

\* the State field a stage function writes; the review function writes none
WrittenBy(v, stage) ==
    IF stage = GenerateNode(v) THEN {DraftField(v)}
    ELSE IF stage = ImproveNode(v) THEN {ImprovedField(v)}
    ELSE IF stage = FinalizeNode(v) THEN {FinalField(v)}
    ELSE {}

\* the fields set when the k-th call of invocation i is made
SetBefore(i, k) ==
    {InputField(variant)} \cup UNION {WrittenBy(variant, visited[i][j]) : j \in 1..(k - 1)}

\* C12: every call reads one field, which is the input field or was written
\* by a stage that ran earlier in the same invocation: Generate reads the
\* input, Review and Improve read the Generate output, Finalize reads the
\* Improve output; the field read is set, and its value is what the prompt carries.
C12_ReadAfterWrite ==
    \A i \in Invocations :
        /\ \A k \in 1..Len(calls[i]) :
              LET c == calls[i][k]
              IN  /\ c.stage = visited[i][k]
                  /\ c.reads = {ReadBy(variant, c.stage)}
                  /\ c.reads \subseteq SetBefore(i, k)
                  /\ c.reads \subseteq DOMAIN state[i]
                  /\ Payload(c.prompt) = state[i][ReadBy(variant, c.stage)]
        /\ pc[i].kind = "node" /\ pc[i].node \in graph.nodes =>
              ReadBy(variant, pc[i].node) \in DOMAIN state[i]
        /\ pc[i].kind = "branch" => DraftField(variant) \in DOMAIN state[i]

C12_Witness ==
    \E i \in Invocations :
        /\ Returned(i)
        /\ Len(calls[i]) = 4
        /\ calls[i][4].reads = {ImprovedField(variant)}
        /\ calls[i][2].reads = {DraftField(variant)}

HasMarkerInside(line) ==
    /\ ~IsMarkerLine(line)
    /\ \E k \in 1..(Len(line) - 2) : SubSeq(line, k, k + 2) \in {DQ3, SQ3}

\* the flag once line k has been handled
FlagAfter(k) == IF k < cz_i THEN cz_flags[k + 1] ELSE in_docstring

\* C13: a line whose trimmed text does not start with a triple-quote marker
\* leaves the flag as it found it, also when a marker stands further into the
\* line; it is classified by the flag and by a leading # alone.
C13_InnerMarker ==
    cz_pc \in {"loop", "done"} =>
        \A k \in 1..cz_i :
            ~IsMarkerLine(cz_lines[k]) =>
                /\ FlagAfter(k) = cz_flags[k]
                /\ cz_cls[k] = IF cz_flags[k] THEN "string"
                               ELSE IF IsHashLine(cz_lines[k]) THEN "comment"
                               ELSE "code"

C13_Witness ==
    /\ cz_pc = "done"
    /\ cz_lines = <<L_mid, L_hq, L_x>>
    /\ HasMarkerInside(cz_lines[1]) /\ HasMarkerInside(cz_lines[2])
    /\ cz_cls = <<"code", "comment", "code">>
    /\ in_docstring = FALSE

\* C14: when every call returns, an invocation that was started reaches the
\* end and returns (it is never again idle, it is not left unfinished for
\* ever, and once returned it stays so); every stage that ran made one call, an invocation never
\* makes more than 4 calls, and one that returned made 2 calls after a Pass
\* verdict and 4 after a Fail verdict.
C14_Terminates ==
    /\ \A i \in Invocations : []<>(pc[i].kind = "idle" \/ Returned(i))
    /\ [][\A i \in Invocations :
              /\ pc[i].kind # "idle" => pc'[i].kind # "idle"
              /\ Returned(i) => Returned(i)']_vars
    /\ [](\A i \in Invocations :
            /\ Len(calls[i]) = Len(visited[i])
            /\ Len(replies[i]) = Len(calls[i])
            /\ Len(calls[i]) <= 4
            /\ Returned(i) => Len(calls[i]) = (IF verdict[i] = "Pass" THEN 2 ELSE 4))

C14_Witness ==
    \E i, j \in Invocations :
        /\ Returned(i) /\ verdict[i] = "Pass" /\ Len(calls[i]) = 2
        /\ Returned(j) /\ verdict[j] = "Fail" /\ Len(calls[j]) = 4

\* C15: colorize_python_code emits one output line per input line, in the
\* same order; each is one style marker (green for code, cyan for comment and
\* string), the input line unchanged with its leading and trailing whitespace,
\* and the reset marker; taking the marker off the front and the reset off the
\* end of each output line gives back the input lines.
StyleOf(cls) == IF cls = "code" THEN GREEN ELSE CYAN

Unwrap(l) == SubSeq(l, Len(GREEN) + 1, Len(l) - Len(RESET))

C15_LineForLine ==
    cz_pc = "done" =>
        LET out_lines == SplitLines(cz_out)
        IN  /\ cz_out = colorize_python_code(cz_code)
            /\ cz_lines = SplitLines(cz_code)
            /\ Len(out_lines) = Len(cz_lines)
            /\ out_lines = colored_lines
            /\ \A k \in 1..Len(cz_lines) :
                  /\ cz_cls[k] \in {"code", "comment", "string"}
                  /\ out_lines[k] = StyleOf(cz_cls[k]) \o cz_lines[k] \o RESET
                  /\ Unwrap(out_lines[k]) = cz_lines[k]

C15_Witness ==
    /\ cz_pc = "done"
    /\ cz_lines = <<L_ic, L_pad, L_esc>>
    /\ cz_cls = <<"comment", "code", "code">>
    /\ Len(SplitLines(cz_out)) = 3

\* C16: the clean-up is complete and idempotent: its result has no occurrence
\* of "python", no backtick or whitespace at either end, and cleaning the
\* result again returns it unchanged.
Edge == Whitespace \cup {TICK}

C16_CleanComplete ==
    cl_pc = "again" =>
        /\ ~In(python, cl_out)
        /\ cl_out # <<>> => Head(cl_out) \notin Edge /\ cl_out[Len(cl_out)] \notin Edge
        /\ cl_again = cl_out

====
